---- MODULE Spec2Model ----
(***************************************************************************)
(* Client-side scripts of django-studyoverflow.                            *)
(*                                                                         *)
(*   notifications WebSocket client   src/unnamed/part_001                 *)
(*   comment expand/collapse sync     posts/js/comments_detail.js          *)
(*   notifications list page          src/unnamed/part_000                 *)
(*   comment forms                    src/unnamed/part_004, part_003,      *)
(*                                    posts/js/post_detail.js              *)
(*   scroll to the anchored comment   src/unnamed/part_004,                *)
(*                                    posts/js/post_detail.js              *)
(*   radio-style button groups        src/unnamed/part_004, part_002       *)
(*                                                                         *)
(* Each script is a set of event handlers over DOM nodes; a handler runs   *)
(* to completion, so every handler is one action.  The browser (WebSocket  *)
(* object, timers, server messages, htmx swaps) is the environment.        *)
(***************************************************************************)
EXTENDS Integers, Sequences, FiniteSets

(* ----------------------------- bounds ---------------------------------- *)
\* WebSocket objects that may be alive at once (the code never needs more than one)
MaxSockets == 3
\* setInterval heartbeat timers the model lets accumulate
MaxHeartbeats == 2
\* saturation of the consecutive-failure counter
MaxFails == 2
\* largest unread count the server sends
MaxCount == 2
\* particle animations that may overlap in time
MaxAnimations == 1
\* comment ids on the post page
NComments == 2
\* notifications on the notifications list page
NNotifs == 2
\* calls of initNotificationHandlers the model lets accumulate
MaxRegs == 2
\* comment ids on the page with the comment forms
NFormComments == 1
\* form requests that may be in flight at once
MaxPending == 1
\* comment cards the URL hash may name
NAnchorCards == 2
\* scrolls counted in one page life (the count saturates here)
MaxScrolls == 2
\* buttons in one radio-style group
NButtons == 2

(* ------------------------- program constants --------------------------- *)
RECONNECT_DELAY == 5000
HEARTBEAT_INTERVAL == 60000
PARTICLE_COUNT == 8
MAX_HEIGHT == 200
TRUNCATION_SLACK == 5

VARIABLES
    \* ---- notifications page: DOM ----
    elems,            \* which of the looked-up elements exist in the document
    countText,        \* countEl.textContent, a sequence of characters
    iconClasses,      \* iconEl.classList
    countClasses,     \* countEl.classList
    particles,        \* particle <div>s currently inside the container
    pulseTimers,      \* pending setTimeout(remove "pulse") callbacks
    \* ---- notifications page: script state ----
    initialized,      \* window.notificationsWSInitialized
    socks,            \* readyState of every WebSocket object still alive
    socket,           \* the closure variable `socket` (0 = undefined)
    evq,              \* events the browser fires in its current task
    reconnectTimers,  \* delays of the pending setTimeout(connect, ...) timers
    hbIntervals,      \* number of active setInterval heartbeat timers
    \* ---- notifications page: observation ----
    lastEvent,        \* the handler that ran last
    lastMsg,          \* payload of the last message event
    prevText,         \* countEl.textContent right before the last message event
    lastGood,         \* unread-count field of the most recent JSON-object message
    out,              \* what the last handler did to the outside world
    fails,            \* consecutive unclean closes (saturating)
    cleanClosed,      \* a clean close event has been handled
    wsStarts,         \* times the page-load handler reached connect()
    \* ---- post page: comment expand/collapse ----
    commentState,     \* the Map commentId -> boolean ("unset" = no entry)
    cdom,             \* per comment id, its wrapper and content nodes
    cEvent,           \* the comment handler that ran last
    settled,          \* comment ids the last settle event covered
    lastClick,        \* per comment id, the branch its last click took
    scrollReq,        \* the last click requested scrollIntoView
    \* ---- notifications list page ----
    listPage,         \* the list DOM and the state of its script (a record)
    \* ---- post page: comment forms ----
    formsPage,        \* the form DOM and the state of the form script (a record)
    \* ---- post page: scroll to the anchored comment ----
    scrollPage,       \* the comments wrapper, the URL hash and the flag (a record)
    \* ---- post page and users page: radio-style button groups ----
    sortPage          \* the groups' buttons and hidden inputs (a record)

wsVars == << elems, countText, iconClasses, countClasses, particles, pulseTimers,
             initialized, socks, socket, evq, reconnectTimers, hbIntervals,
             lastEvent, lastMsg, prevText, lastGood, out, fails, cleanClosed,
             wsStarts >>

cVars == << commentState, cdom, cEvent, settled, lastClick, scrollReq >>

nVars == << listPage >>

fVars == << formsPage >>

aVars == << scrollPage >>

gVars == << sortPage >>

vars == << wsVars, cVars, nVars, fVars, aVars, gVars >>

\* what the handlers of one page leave alone: the other pages
notWS == << cVars, nVars, fVars, aVars, gVars >>
notComments == << wsVars, nVars, fVars, aVars, gVars >>
notList == << wsVars, cVars, fVars, aVars, gVars >>
notForms == << wsVars, cVars, nVars, aVars, gVars >>
notScroll == << wsVars, cVars, nVars, fVars, gVars >>
notSort == << wsVars, cVars, nVars, fVars, aVars >>

(* ----------------------------- helpers --------------------------------- *)
Min(a, b) == IF a < b THEN a ELSE b

Digits == << "0", "1", "2", "3", "4", "5", "6", "7", "8", "9" >>

DigitChar(d) == Digits[d + 1]

IsDigit(c) == \E d \in 0..9 : Digits[d + 1] = c

DigitVal(c) == CHOOSE d \in 0..9 : Digits[d + 1] = c

\* String(n) for a non-negative integer, as a sequence of characters
RECURSIVE StringOf(_)
StringOf(n) == IF n < 10 THEN << DigitChar(n) >>
               ELSE StringOf(n \div 10) \o << DigitChar(n % 10) >>

NaN == -1

\* parseInt(text): the value of the longest prefix of decimal digits, NaN if
\* there is none (the display never holds a sign or leading white space)
RECURSIVE ParseDigits(_, _, _)
ParseDigits(text, i, acc) ==
    IF i > Len(text) \/ ~IsDigit(text[i])
    THEN acc
    ELSE ParseDigits(text, i + 1, 10 * acc + DigitVal(text[i]))

parseInt(text) ==
    IF Len(text) = 0 \/ ~IsDigit(text[1]) THEN NaN ELSE ParseDigits(text, 1, 0)

\* parseInt(countEl.textContent) || 0
previousCountOf(text) == IF parseInt(text) = NaN THEN 0 ELSE parseInt(text)

(* ---------------------------- payloads --------------------------------- *)
\* event.data of a message event.  kind:
\*   "invalid"  text that is not JSON              (JSON.parse throws)
\*   "null"     the JSON text null                 (property access throws)
\*   "scalar"   a JSON number, string, boolean or array: not an object, but
\*              reading a property of it yields undefined
\*   "object"   a JSON object; cnt is its unread_notifications_count
\*              ("absent", "null" or "num" with value n), upd its update_list
NoCount == [t |-> "absent", n |-> 0]

CountFields == { NoCount, [t |-> "null", n |-> 0] }
               \cup { [t |-> "num", n |-> k] : k \in 0..MaxCount }

Payloads == { [kind |-> k, cnt |-> NoCount, upd |-> FALSE] :
                  k \in {"invalid", "null", "scalar"} }
            \cup { [kind |-> "object", cnt |-> c, upd |-> u] :
                  c \in CountFields, u \in BOOLEAN }

NoMsg == [kind |-> "none", cnt |-> NoCount, upd |-> FALSE]

NoGood == [t |-> "none", n |-> 0]

IsJsonObject(m) == m.kind = "object"

\* the try block throws before touching the DOM: JSON.parse fails, or the
\* parsed value is null and data.unread_notifications_count is a TypeError
ParseThrows(m) == m.kind \in {"invalid", "null"}

\* data.unread_notifications_count ?? 0
CountOf(m) == IF m.kind = "object" /\ m.cnt.t = "num" THEN m.cnt.n ELSE 0

\* data.update_list (truthy)
UpdateListOf(m) == m.kind = "object" /\ m.upd

(* ------------------------------ sockets -------------------------------- *)
Slots == 1..MaxSockets

Live(s) == socks[s] \in {"CONNECTING", "OPEN"}

HasPending(s) == \E i \in 1..Len(evq) : evq[i].sock = s

\* a closed socket with no event left to deliver can never act again
Dead(ss, s) == ss[s] = "NONE" \/ (ss[s] = "CLOSED" /\ ~HasPending(s))

FreeSlots == { s \in Slots : s # socket /\ Dead(socks, s) }

NoEffects == [anim |-> FALSE, fetch |-> 0, sent |-> 0, logged |-> FALSE]

\* WebSocket.close(): nothing on a CLOSING or CLOSED socket, otherwise the
\* closing handshake starts (OPEN) or the connection is failed (CONNECTING)
SocketClose(ss, s) ==
    IF s = 0 \/ ss[s] \in {"NONE", "CLOSING", "CLOSED"} THEN ss
    ELSE [ss EXCEPT ![s] = "CLOSING"]

\* connect(): socket = new WebSocket(wsUrl); the object the variable pointed
\* to before is dropped if it is dead
connect ==
    /\ FreeSlots # {}
    /\ LET s == CHOOSE x \in FreeSlots : \A y \in FreeSlots : x <= y
       IN /\ socket' = s
          /\ socks' = [i \in Slots |->
                         IF i = s THEN "CONNECTING"
                         ELSE IF Dead(socks, i) THEN "NONE" ELSE socks[i]]

\* a comment that is not in the document
NoComment ==
    [ present |-> FALSE, scrollHeight |-> MAX_HEIGHT, expanded |-> FALSE,
      truncated |-> FALSE, label |-> "show", arrow |-> 0, maxHeight |-> 0,
      display |-> "" ]

\* value of a page variable in a document that does not load that page's script
NotLoaded == "not loaded"

\* ids of the notifications on the list page
Notifs == 1 .. NNotifs

\* a notification that is not on the page
NoNotif ==
    [present |-> FALSE, highlighted |-> FALSE, disabled |-> FALSE,
     label |-> "mark", hx |-> FALSE]

\* no request has completed yet
NoTrigger == [kind |-> "none", id |-> 0]

\* ids of the comments on the page with the comment forms
FComments == 1 .. NFormComments

RootForm == [kind |-> "root", id |-> 0]

Forms ==
    {RootForm} \cup { [kind |-> k, id |-> c] : k \in {"reply", "edit"}, c \in FComments }

ReplyEditForms == Forms \ {RootForm}

\* neither the container nor the button is in the document
NoForm == [container |-> FALSE, button |-> FALSE, display |-> "none", disabled |-> FALSE]

\* a response without HX-Trigger header
NoHeader == [kind |-> "absent", id |-> 0]

NoTarget == [act |-> "none", form |-> RootForm]

NoSwapInfo == [status |-> 0, shouldSwapIn |-> FALSE, shouldSwap |-> FALSE]

(* ------------------------------- Init ---------------------------------- *)
\* Notification pages; no comments on them.  The server renders the button with its icon, counter and particle
\* container together (pages for anonymous users have none of them); the
\* notifications list exists only on the notifications page.
InitWS ==
    /\ elems \in { {}, {"icon", "count"},
                   {"button", "icon", "count", "particles"},
                   {"button", "icon", "count", "particles", "list"} }
    /\ countText \in { << >>, StringOf(0), StringOf(1) }
    /\ iconClasses \in { {"bi-bell"}, {"bi-bell-fill"} }
    /\ countClasses \in { {"text-warning"}, {"text-danger"} }
    /\ particles = 0
    /\ pulseTimers = 0
    /\ initialized = FALSE
    /\ socks = [s \in Slots |-> "NONE"]
    /\ socket = 0
    /\ evq = << >>
    /\ reconnectTimers = << >>
    /\ hbIntervals = 0
    /\ lastEvent = "none"
    /\ lastMsg = NoMsg
    /\ prevText = << >>
    /\ lastGood = NoGood
    /\ out = NoEffects
    /\ fails = 0
    /\ cleanClosed = FALSE
    /\ wsStarts = 0
    /\ commentState = [c \in 1..NComments |-> "unset"]
    /\ cdom = [c \in 1..NComments |-> NoComment]
    /\ cEvent = "none"
    /\ settled = {}
    /\ lastClick = [c \in 1..NComments |-> "none"]
    /\ scrollReq = FALSE
    /\ listPage = NotLoaded
    /\ formsPage = NotLoaded
    /\ scrollPage = NotLoaded
    /\ sortPage = NotLoaded

domVars == << elems, countText, iconClasses, countClasses, particles, pulseTimers >>
\* a handler other than onmessage handled no message
noMessage == lastMsg' = NoMsg /\ prevText' = << >> /\ UNCHANGED lastGood

(* ------------------------------ actions -------------------------------- *)
\* document DOMContentLoaded listener
DOMContentLoaded ==
    /\ UNCHANGED notWS
    /\ noMessage
    /\ evq = << >>
    /\ lastEvent' = "load"
    /\ out' = NoEffects
    /\ IF ~({"button", "icon", "count"} \subseteq elems) \/ initialized
       THEN UNCHANGED << initialized, socks, socket, wsStarts >>
       ELSE /\ initialized' = TRUE
            /\ wsStarts' = wsStarts + 1
            /\ connect
    /\ UNCHANGED << domVars, evq, reconnectTimers, hbIntervals, fails,
                    cleanClosed >>

\* the connection is established: readyState becomes OPEN and onopen runs,
\* starting one more heartbeat interval (none is ever cleared; the model stops
\* opening connections at MaxHeartbeats intervals)
OnOpen(s) ==
    /\ UNCHANGED notWS
    /\ noMessage
    /\ evq = << >>
    /\ socks[s] = "CONNECTING"
    /\ hbIntervals < MaxHeartbeats
    /\ socks' = [socks EXCEPT ![s] = "OPEN"]
    /\ hbIntervals' = hbIntervals + 1
    /\ lastEvent' = "open"
    /\ out' = NoEffects
    /\ fails' = 0
    /\ UNCHANGED << domVars, initialized, socket, evq, reconnectTimers, cleanClosed, wsStarts >>

\* variant: the callback sends without looking at readyState
HeartbeatTickSendsAlways ==
    socket # 0

\* if (socket.readyState === WebSocket.OPEN) inside the setInterval callback
HeartbeatTickSends ==
    socket # 0 /\ socks[socket] = "OPEN"

\* one tick of one setInterval heartbeat callback
HeartbeatTick ==
    /\ UNCHANGED notWS
    /\ noMessage
    /\ evq = << >>
    /\ hbIntervals > 0
    /\ lastEvent' = "heartbeat"
    /\ out' = [NoEffects EXCEPT !.sent = IF HeartbeatTickSends THEN 1 ELSE 0]
    /\ UNCHANGED << domVars, initialized, socks, socket, evq, reconnectTimers,
                    hbIntervals, fails, cleanClosed, wsStarts >>

\* animateNotification(): pulse on the icon, PARTICLE_COUNT particles appended
\* to the container; appendChild on a missing container throws after the pulse
animateNotification(icon) ==
    [ icon      |-> icon \cup {"pulse"},
      pulse     |-> pulseTimers + 1,
      particles |-> IF "particles" \in elems THEN particles + PARTICLE_COUNT
                    ELSE particles,
      threw     |-> "particles" \notin elems ]

\* variant: the new bell class is added without removing the other one
iconForNoRemove(count, icon) ==
    IF count > 0 THEN icon \cup {"bi-bell-fill"} ELSE icon \cup {"bi-bell"}

\* count > 0 branch / else branch of the icon and colour switch
iconFor(count, icon) ==
    IF count > 0 THEN (icon \ {"bi-bell"}) \cup {"bi-bell-fill"}
    ELSE (icon \ {"bi-bell-fill"}) \cup {"bi-bell"}

colourFor(count, cls) ==
    IF count > 0 THEN (cls \ {"text-warning"}) \cup {"text-danger"}
    ELSE (cls \ {"text-danger"}) \cup {"text-warning"}

\* variant: animates whenever the count is positive and did not drop
shouldAnimateGE(count, previousCount) == count > 0 /\ count >= previousCount

\* if (count > previousCount) animateNotification(), inside the count > 0 branch
shouldAnimate(count, previousCount) == count > 0 /\ count > previousCount

\* variant: the refresh sits inside the count > 0 branch
shouldRefreshListPositive(m) == UpdateListOf(m) /\ "list" \in elems /\ CountOf(m) > 0

\* if (data.update_list && notificationsListEl) htmx.ajax(...)
shouldRefreshList(m) == UpdateListOf(m) /\ "list" \in elems

\* bound on the server's pace: at most MaxAnimations animations overlap
AnimationRoom ==
    /\ pulseTimers < MaxAnimations
    /\ particles + PARTICLE_COUNT <= MaxAnimations * PARTICLE_COUNT

\* socket.onmessage (delivered only while the socket is OPEN)
OnMessage(s, m) ==
    /\ UNCHANGED notWS
    /\ evq = << >>
    /\ socks[s] = "OPEN"
    /\ lastEvent' = "message"
    /\ lastMsg' = m
    /\ prevText' = countText
    /\ lastGood' = IF IsJsonObject(m) THEN m.cnt ELSE lastGood
    /\ IF ParseThrows(m)
       THEN /\ out' = [NoEffects EXCEPT !.logged = TRUE]
            /\ UNCHANGED << countText, iconClasses, countClasses, particles,
                            pulseTimers >>
       ELSE LET count == CountOf(m)
                previousCount == previousCountOf(countText)
                icon == iconFor(count, iconClasses)
                anim == animateNotification(icon)
            IN /\ countText' = StringOf(count)
               /\ countClasses' = colourFor(count, countClasses)
               /\ IF shouldAnimate(count, previousCount)
                  THEN /\ AnimationRoom
                       /\ iconClasses' = anim.icon
                       /\ pulseTimers' = anim.pulse
                       /\ particles' = anim.particles
                       /\ out' = [ anim   |-> ~anim.threw,
                                   fetch  |-> IF ~anim.threw /\ shouldRefreshList(m)
                                              THEN 1 ELSE 0,
                                   sent   |-> 0,
                                   logged |-> anim.threw ]
                  ELSE /\ iconClasses' = icon
                       /\ UNCHANGED << pulseTimers, particles >>
                       /\ out' = [NoEffects EXCEPT
                                    !.fetch = IF shouldRefreshList(m) THEN 1 ELSE 0]
    /\ UNCHANGED << elems, initialized, socks, socket, evq, reconnectTimers,
                    hbIntervals, fails, cleanClosed, wsStarts >>

\* setTimeout(() => iconEl.classList.remove("pulse"), 500)
PulseTimeout ==
    /\ UNCHANGED notWS
    /\ noMessage
    /\ evq = << >>
    /\ pulseTimers > 0
    /\ pulseTimers' = pulseTimers - 1
    /\ iconClasses' = iconClasses \ {"pulse"}
    /\ lastEvent' = "timeout"
    /\ out' = NoEffects
    /\ UNCHANGED << elems, countText, countClasses, particles, initialized, socks,
                    socket, evq, reconnectTimers, hbIntervals, fails,
                    cleanClosed, wsStarts >>

\* setTimeout(() => particle.remove(), 600): the PARTICLE_COUNT timers of one
\* animateNotification() call are set in one loop with one delay and expire
\* together; nothing reads the particles in between
ParticleTimeout ==
    /\ UNCHANGED notWS
    /\ noMessage
    /\ evq = << >>
    /\ particles >= PARTICLE_COUNT
    /\ particles' = particles - PARTICLE_COUNT
    /\ lastEvent' = "timeout"
    /\ out' = NoEffects
    /\ UNCHANGED << elems, countText, iconClasses, countClasses, pulseTimers,
                    initialized, socks, socket, evq, reconnectTimers, hbIntervals,
                    fails, cleanClosed, wsStarts >>

\* browser: the server starts the closing handshake on an open connection
ClosingHandshake(s) ==
    /\ UNCHANGED notWS
    /\ noMessage
    /\ evq = << >>
    /\ socks[s] = "OPEN"
    /\ socks' = [socks EXCEPT ![s] = "CLOSING"]
    /\ lastEvent' = "closing"
    /\ out' = NoEffects
    /\ UNCHANGED << domVars, initialized, socket, evq, reconnectTimers, hbIntervals,
                    fails, cleanClosed, wsStarts >>

\* browser: "the WebSocket connection is closed": readyState becomes CLOSED,
\* then error is fired if the connection was failed, then close is fired.
\* A connection that never opened can only fail; a failed one is never clean.
ConnectionClosed(s, failed, wasClean) ==
    /\ UNCHANGED notWS
    /\ noMessage
    /\ evq = << >>
    /\ socks[s] \in {"CONNECTING", "OPEN", "CLOSING"}
    /\ ~(failed /\ wasClean)
    /\ socks[s] = "CONNECTING" => failed
    /\ socks' = [socks EXCEPT ![s] = "CLOSED"]
    /\ evq' = (IF failed THEN << [sock |-> s, type |-> "error", wasClean |-> FALSE] >>
               ELSE << >>)
              \o << [sock |-> s, type |-> "close", wasClean |-> wasClean] >>
    /\ lastEvent' = "closed"
    /\ out' = NoEffects
    /\ UNCHANGED << domVars, initialized, socket, reconnectTimers, hbIntervals,
                    fails, cleanClosed, wsStarts >>

\* variant: the error handler schedules a reconnect of its own
OnErrorReconnects(s) ==
    /\ UNCHANGED notWS
    /\ noMessage
    /\ evq # << >>
    /\ Head(evq).sock = s
    /\ Head(evq).type = "error"
    /\ evq' = Tail(evq)
    /\ socks' = SocketClose(socks, socket)
    /\ reconnectTimers' = Append(reconnectTimers, RECONNECT_DELAY)
    /\ lastEvent' = "error"
    /\ out' = [NoEffects EXCEPT !.logged = TRUE]
    /\ UNCHANGED << domVars, initialized, socket, hbIntervals,
                    fails, cleanClosed, wsStarts >>

\* socket.onerror: closes whatever the variable `socket` points to now
OnError(s) ==
    /\ UNCHANGED notWS
    /\ noMessage
    /\ evq # << >>
    /\ Head(evq).sock = s
    /\ Head(evq).type = "error"
    /\ evq' = Tail(evq)
    /\ socks' = SocketClose(socks, socket)
    /\ lastEvent' = "error"
    /\ out' = [NoEffects EXCEPT !.logged = TRUE]
    /\ UNCHANGED << domVars, initialized, socket, reconnectTimers, hbIntervals,
                    fails, cleanClosed, wsStarts >>

\* variant: gives up after MaxFails consecutive failures
OnCloseCapped(s, wasClean) ==
    /\ UNCHANGED notWS
    /\ noMessage
    /\ evq # << >>
    /\ Head(evq).sock = s
    /\ Head(evq).type = "close"
    /\ Head(evq).wasClean = wasClean
    /\ evq' = Tail(evq)
    /\ IF ~wasClean
       THEN /\ reconnectTimers' = IF fails < MaxFails
                                  THEN Append(reconnectTimers, RECONNECT_DELAY)
                                  ELSE reconnectTimers
            /\ fails' = Min(fails + 1, MaxFails)
            /\ lastEvent' = "closeUnclean"
            /\ UNCHANGED cleanClosed
       ELSE /\ cleanClosed' = TRUE
            /\ lastEvent' = "closeClean"
            /\ UNCHANGED << reconnectTimers, fails >>
    /\ out' = NoEffects
    /\ UNCHANGED << domVars, initialized, socks, socket, hbIntervals, wsStarts >>

\* variant: reconnects after every close, clean or not
OnCloseAlways(s, wasClean) ==
    /\ UNCHANGED notWS
    /\ noMessage
    /\ evq # << >>
    /\ Head(evq).sock = s
    /\ Head(evq).type = "close"
    /\ Head(evq).wasClean = wasClean
    /\ evq' = Tail(evq)
    /\ reconnectTimers' = Append(reconnectTimers, RECONNECT_DELAY)
    /\ IF ~wasClean
       THEN /\ fails' = Min(fails + 1, MaxFails)
            /\ lastEvent' = "closeUnclean"
            /\ UNCHANGED cleanClosed
       ELSE /\ cleanClosed' = TRUE
            /\ lastEvent' = "closeClean"
            /\ UNCHANGED fails
    /\ out' = NoEffects
    /\ UNCHANGED << domVars, initialized, socks, socket, hbIntervals, wsStarts >>

\* socket.onclose
OnClose(s, wasClean) ==
    /\ UNCHANGED notWS
    /\ noMessage
    /\ evq # << >>
    /\ Head(evq).sock = s
    /\ Head(evq).type = "close"
    /\ Head(evq).wasClean = wasClean
    /\ evq' = Tail(evq)
    /\ IF ~wasClean
       THEN /\ reconnectTimers' = Append(reconnectTimers, RECONNECT_DELAY)
            /\ fails' = Min(fails + 1, MaxFails)
            /\ lastEvent' = "closeUnclean"
            /\ UNCHANGED cleanClosed
       ELSE /\ cleanClosed' = TRUE
            /\ lastEvent' = "closeClean"
            /\ UNCHANGED << reconnectTimers, fails >>
    /\ out' = NoEffects
    /\ UNCHANGED << domVars, initialized, socks, socket, hbIntervals, wsStarts >>

\* a setTimeout(connect, RECONNECT_DELAY) timer fires
ReconnectTimerFire ==
    /\ UNCHANGED notWS
    /\ noMessage
    /\ evq = << >>
    /\ reconnectTimers # << >>
    /\ reconnectTimers' = Tail(reconnectTimers)
    /\ connect
    /\ lastEvent' = "reconnect"
    /\ out' = NoEffects
    /\ UNCHANGED << domVars, initialized, evq, hbIntervals, fails,
                    cleanClosed, wsStarts >>

NextWS ==
    \/ DOMContentLoaded
    \/ \E s \in Slots : OnOpen(s)
    \/ HeartbeatTick
    \/ \E s \in Slots, m \in Payloads : OnMessage(s, m)
    \/ PulseTimeout
    \/ ParticleTimeout
    \/ \E s \in Slots : ClosingHandshake(s)
    \/ \E s \in Slots, failed \in BOOLEAN, wasClean \in BOOLEAN :
           ConnectionClosed(s, failed, wasClean)
    \/ \E s \in Slots : OnError(s)
    \/ \E s \in Slots, wasClean \in BOOLEAN : OnClose(s, wasClean)
    \/ ReconnectTimerFire

(* ====================== comment expand / collapse ====================== *)
Comments == 1..NComments

\* content.scrollHeight values: the largest that is not truncated, the smallest
\* that is
Heights == { MAX_HEIGHT + TRUNCATION_SLACK, MAX_HEIGHT + TRUNCATION_SLACK + 1 }

\* a comment as the server template renders it: collapsed markup, no inline style
\* (maxHeight 0 and display "" stand for "no inline value")
ServerRendered(h) ==
    [ present |-> TRUE, scrollHeight |-> h, expanded |-> FALSE, truncated |-> FALSE,
      label |-> "show", arrow |-> 0, maxHeight |-> 0, display |-> "" ]

\* updateTruncation(content)
updateTruncation(d) ==
    [d EXCEPT !.truncated =
        d.scrollHeight > MAX_HEIGHT + TRUNCATION_SLACK /\ ~d.expanded]

\* commentState.get(commentId), as the condition of an if
StateIsTrue(st, c) == st[c] = "true"

\* body of the forEach in syncComments for one wrapper: the new Map entry ...
syncState(st, c) == IF st[c] = "unset" THEN "false" ELSE st[c]

\* variant: the synchroniser forgets the stored state and always collapses
syncDomCollapsed(st, d, c) ==
    updateTruncation(
        [d EXCEPT !.expanded = FALSE, !.maxHeight = MAX_HEIGHT, !.arrow = 0,
                  !.label = "show",
                  !.display = IF d.scrollHeight > MAX_HEIGHT + TRUNCATION_SLACK
                              THEN "block" ELSE "none"])

\* ... and the new DOM of the comment
syncDom(st, d, c) ==
    LET expanded == StateIsTrue([st EXCEPT ![c] = syncState(st, c)], c)
        d1 == IF expanded
              THEN [d EXCEPT !.expanded = TRUE, !.maxHeight = d.scrollHeight,
                             !.arrow = 180, !.label = "collapse"]
              ELSE [d EXCEPT !.expanded = FALSE, !.maxHeight = MAX_HEIGHT,
                             !.arrow = 0, !.label = "show"]
        d2 == [d1 EXCEPT !.display =
                 IF d1.scrollHeight > MAX_HEIGHT + TRUNCATION_SLACK
                 THEN "block" ELSE "none"]
    IN updateTruncation(d2)

\* syncComments(root): every wrapper under root whose content exists
syncComments(region) ==
    /\ commentState' = [c \in Comments |->
                          IF c \in region /\ cdom[c].present
                          THEN syncState(commentState, c) ELSE commentState[c]]
    /\ cdom' = [c \in Comments |->
                  IF c \in region /\ cdom[c].present
                  THEN syncDom(commentState, cdom[c], c) ELSE cdom[c]]

\* 'htmx:afterSettle' listener; region = comments inside e.target
AfterSettle(region) ==
    /\ UNCHANGED notComments
    /\ syncComments(region)
    /\ cEvent' = "settle"
    /\ settled' = region
    /\ scrollReq' = FALSE
    /\ UNCHANGED lastClick

\* click listener on a wrapper of comment c; topVisible = isTopVisible(anchorEl)
Click(c, topVisible) ==
    /\ UNCHANGED notComments
    /\ cdom[c].present
    /\ LET expanded == StateIsTrue(commentState, c)
           d == cdom[c]
       IN /\ commentState' = [commentState EXCEPT
                                ![c] = IF expanded THEN "false" ELSE "true"]
          /\ IF expanded
             THEN /\ cdom' = [cdom EXCEPT ![c] = updateTruncation(
                                [d EXCEPT !.maxHeight = MAX_HEIGHT, !.expanded = FALSE,
                                          !.arrow = 0, !.label = "show"])]
                  /\ lastClick' = [lastClick EXCEPT ![c] = "collapse"]
                  /\ scrollReq' = ~topVisible
             ELSE /\ cdom' = [cdom EXCEPT ![c] = updateTruncation(
                                [d EXCEPT !.maxHeight = d.scrollHeight,
                                          !.expanded = TRUE, !.arrow = 180,
                                          !.label = "collapse"])]
                  /\ lastClick' = [lastClick EXCEPT ![c] = "expand"]
                  /\ scrollReq' = FALSE
    /\ cEvent' = "click"
    /\ UNCHANGED settled

\* click on a wrapper whose content node is missing: the handler returns early
\* (modelled by absence: no state changes, so no action)

\* htmx swaps server HTML in: the comments of the region are rendered anew
\* (collapsed, any height) or are gone
Swap(region, render) ==
    /\ UNCHANGED notComments
    /\ region # {}
    /\ cdom' = [c \in Comments |-> IF c \in region THEN render[c] ELSE cdom[c]]
    /\ cEvent' = "swap"
    /\ scrollReq' = FALSE
    /\ UNCHANGED << commentState, settled, lastClick >>

Renderings == { NoComment } \cup { ServerRendered(h) : h \in Heights }

NextComments ==
    \/ \E region \in SUBSET Comments : AfterSettle(region)
    \/ \E c \in Comments, topVisible \in BOOLEAN : Click(c, topVisible)
    \/ \E region \in SUBSET Comments : \E render \in [region -> Renderings] :
           Swap(region, render)

\* the post page before its comments are loaded (a page without the
\* notification elements, whose load handler has not run)
InitComments ==
    /\ commentState = [c \in Comments |-> "unset"]
    /\ cdom = [c \in Comments |-> NoComment]
    /\ cEvent = "none"
    /\ settled = {}
    /\ lastClick = [c \in Comments |-> "none"]
    /\ scrollReq = FALSE
    /\ elems = {}
    /\ countText = << >>
    /\ iconClasses = {"bi-bell"}
    /\ countClasses = {"text-warning"}
    /\ particles = 0
    /\ pulseTimers = 0
    /\ initialized = FALSE
    /\ socks = [s \in Slots |-> "NONE"]
    /\ socket = 0
    /\ evq = << >>
    /\ reconnectTimers = << >>
    /\ hbIntervals = 0
    /\ lastEvent = "none"
    /\ lastMsg = NoMsg
    /\ prevText = << >>
    /\ lastGood = NoGood
    /\ out = NoEffects
    /\ fails = 0
    /\ cleanClosed = FALSE
    /\ wsStarts = 0
    /\ listPage = NotLoaded
    /\ formsPage = NotLoaded
    /\ scrollPage = NotLoaded
    /\ sortPage = NotLoaded

(* ===================== notifications list page ========================= *)
\* src/unnamed/part_000: two htmx:afterRequest listeners on document.body.
\* htmx fires htmx:afterRequest in the task that handled the response, after
\* the swap of a successful response (default swap timing); a failed request
\* swaps nothing and fires the event too.
\* an unread notification as the server renders it: card with the classes
\* border border-warning, button .mark-read-btn with hx-post and hx-trigger
UnreadNotif ==
    [present |-> TRUE, highlighted |-> TRUE, disabled |-> FALSE,
     label |-> "mark", hx |-> TRUE]

\* a notification the server renders as already read
ReadNotif ==
    [present |-> TRUE, highlighted |-> FALSE, disabled |-> TRUE,
     label |-> "read", hx |-> FALSE]

ListRenderings == { NoNotif, UnreadNotif, ReadNotif }

\* event.detail.elt of the requests the page issues
Triggers ==
    { [kind |-> k, id |-> i] : k \in {"markRead", "delete"}, i \in Notifs }
    \cup { [kind |-> k, id |-> 0] : k \in {"markAll", "deleteAll", "refresh", "other"} }

\* the element of the trigger exists and can issue the request
CanRequest(t) ==
    CASE t.kind = "markRead"  -> listPage.notifs[t.id].present /\ listPage.notifs[t.id].hx
      [] t.kind = "delete"    -> listPage.notifs[t.id].present
      [] t.kind = "markAll"   -> "markAll" \in listPage.elems /\ ~listPage.markAllDisabled
      [] t.kind = "deleteAll" -> "deleteAll" \in listPage.elems /\ ~listPage.deleteAllDisabled
      [] t.kind = "refresh"   -> "list" \in listPage.elems
      [] OTHER                -> TRUE

\* what the swap of a successful response does to the list
swapOf(items, t, rendering) ==
    CASE t.kind = "delete"    -> [items EXCEPT ![t.id] = NoNotif]
      [] t.kind = "deleteAll" -> [i \in Notifs |-> NoNotif]
      [] t.kind = "refresh"   -> rendering
      [] OTHER                -> items

\* card.classList.remove("border", "border-warning"); trigger gets class
\* "disabled" and the text of a read notification
markOne(items, i) ==
    [items EXCEPT ![i] = [@ EXCEPT !.highlighted = FALSE, !.disabled = TRUE,
                                   !.label = "read"]]

markEvery(items) ==
    [i \in Notifs |->
        IF items[i].present
        THEN [items[i] EXCEPT !.highlighted = FALSE, !.disabled = TRUE,
                              !.label = "read", !.hx = FALSE]
        ELSE items[i]]

\* variant: one mark-read button marks every notification
markReadHandlerSpreads(items, t) ==
    CASE t.kind = "markRead" -> markEvery(items)
      [] t.kind = "markAll"  -> markEvery(items)
      [] OTHER               -> items

\* listener 1: neither branch looks at event.detail.successful
markReadHandler(items, t) ==
    CASE t.kind = "markRead" -> markOne(items, t.id)
      [] t.kind = "markAll"  -> markEvery(items)
      [] OTHER               -> items

wrappersIn(items) == Cardinality({ i \in Notifs : items[i].present })

\* variant: the text and the buttons are never switched back
emptyStateHandlerShowOnly(page) ==
    IF "list" \notin listPage.elems THEN page
    ELSE IF wrappersIn(page.items) = 0
         THEN [page EXCEPT
                 !.noNotif = IF "noNotif" \in listPage.elems THEN "block" ELSE @,
                 !.markAll = IF "markAll" \in listPage.elems THEN TRUE ELSE @,
                 !.deleteAll = IF "deleteAll" \in listPage.elems THEN TRUE ELSE @]
         ELSE page

\* listener 2
emptyStateHandler(page) ==
    IF "list" \notin listPage.elems THEN page
    ELSE IF wrappersIn(page.items) = 0
         THEN [page EXCEPT
                 !.noNotif = IF "noNotif" \in listPage.elems THEN "block" ELSE @,
                 !.markAll = IF "markAll" \in listPage.elems THEN TRUE ELSE @,
                 !.deleteAll = IF "deleteAll" \in listPage.elems THEN TRUE ELSE @]
         ELSE [page EXCEPT
                 !.noNotif = IF "noNotif" \in listPage.elems THEN "none" ELSE @,
                 !.markAll = IF "markAll" \in listPage.elems THEN FALSE ELSE @,
                 !.deleteAll = IF "deleteAll" \in listPage.elems THEN FALSE ELSE @]

\* every call of initNotificationHandlers added both listeners once more;
\* the event runs them in the order they were added
RECURSIVE runListeners(_, _, _)
runListeners(n, page, t) ==
    IF n = 0 THEN page
    ELSE runListeners(n - 1,
            emptyStateHandler([page EXCEPT !.items = markReadHandler(@, t)]), t)

\* the page elements the handlers look up
ListElems == {"list", "noNotif", "markAll", "deleteAll"}

InitList ==
    /\ listPage \in
         { p \in [elems : { {}, ListElems, ListElems \ {"noNotif"} },
                  notifs : [Notifs -> ListRenderings],
                  noNotifDisplay : {"block", "none"},
                  markAllDisabled : BOOLEAN,
                  deleteAllDisabled : BOOLEAN,
                  lateInit : BOOLEAN,
                  registered : {0, 1},
                  event : {"none"},
                  trigger : {NoTrigger},
                  successful : {TRUE}] :
             /\ ("list" \notin p.elems) => p.notifs = [i \in Notifs |-> NoNotif]
             /\ ("noNotif" \notin p.elems) => p.noNotifDisplay = "none"
             /\ ("markAll" \notin p.elems) =>
                   (~p.markAllDisabled /\ ~p.deleteAllDisabled)
             /\ p.registered = IF p.lateInit THEN 0 ELSE 1 }
    /\ formsPage = NotLoaded
    /\ scrollPage = NotLoaded
    /\ sortPage = NotLoaded
    /\ elems = {}
    /\ countText = << >>
    /\ iconClasses = {"bi-bell"}
    /\ countClasses = {"text-warning"}
    /\ particles = 0
    /\ pulseTimers = 0
    /\ initialized = FALSE
    /\ socks = [s \in Slots |-> "NONE"]
    /\ socket = 0
    /\ evq = << >>
    /\ reconnectTimers = << >>
    /\ hbIntervals = 0
    /\ lastEvent = "none"
    /\ lastMsg = NoMsg
    /\ prevText = << >>
    /\ lastGood = NoGood
    /\ out = NoEffects
    /\ fails = 0
    /\ cleanClosed = FALSE
    /\ wsStarts = 0
    /\ commentState = [c \in Comments |-> "unset"]
    /\ cdom = [c \in Comments |-> NoComment]
    /\ cEvent = "none"
    /\ settled = {}
    /\ lastClick = [c \in Comments |-> "none"]
    /\ scrollReq = FALSE

\* htmx:load reaches document: the script found no window.htmx when it ran,
\* so every htmx:load calls initNotificationHandlers
HtmxLoad ==
    /\ UNCHANGED notList
    /\ listPage.lateInit
    /\ listPage.registered < MaxRegs
    /\ listPage' = [listPage EXCEPT !.registered = @ + 1,
                                    !.event = "htmx:load",
                                    !.trigger = NoTrigger,
                                    !.successful = TRUE]

\* a request of the page completes: swap (if successful), then htmx:afterRequest
AfterRequest(t, successful, rendering) ==
    /\ UNCHANGED notList
    /\ listPage.registered >= 1
    /\ CanRequest(t)
    /\ LET page == [items |-> IF successful
                              THEN swapOf(listPage.notifs, t, rendering)
                              ELSE listPage.notifs,
                    noNotif |-> listPage.noNotifDisplay,
                    markAll |-> listPage.markAllDisabled,
                    deleteAll |-> listPage.deleteAllDisabled]
           after == runListeners(listPage.registered, page, t)
       IN  listPage' = [listPage EXCEPT !.notifs = after.items,
                                        !.noNotifDisplay = after.noNotif,
                                        !.markAllDisabled = after.markAll,
                                        !.deleteAllDisabled = after.deleteAll,
                                        !.event = "afterRequest",
                                        !.trigger = t,
                                        !.successful = successful]

NextList ==
    \/ HtmxLoad
    \/ \E t \in Triggers, successful \in BOOLEAN :
          \E rendering \in [Notifs -> ListRenderings] :
              AfterRequest(t, successful, rendering)

(* ========================== comment forms ============================== *)
\* Three scripts toggle the root, reply and edit comment forms:
\*   "part_004"     src/unnamed/part_004: the listeners of lines 13-251 and,
\*                  registered after them, the listeners of lines 286-423
\*   "post_detail"  posts/js/post_detail.js
\*   "part_003"     src/unnamed/part_003: listeners bound to the buttons
\*                  found at DOMContentLoaded, no htmx listeners
\* A form is a container (#comment-form-container, #reply-form-<id>,
\* #edit-form-<id>) with its toggle button (#show-comment-form,
\* .reply-btn / .edit-comment-btn with data-comment-id).
Scripts == {"part_004", "post_detail", "part_003"}

\* as the server renders it: form hidden, button enabled
FreshForm == [container |-> TRUE, button |-> TRUE, display |-> "none", disabled |-> FALSE]

\* a toggle button whose container is missing, a container without button
ButtonOnly == [FreshForm EXCEPT !.container = FALSE]
ContainerOnly == [FreshForm EXCEPT !.button = FALSE]

\* server renderings of one comment: not there, with its reply and edit
\* controls, and a partial one the null checks allow for
CommentRenderings ==
    { [reply |-> NoForm,    edit |-> NoForm],
      [reply |-> FreshForm, edit |-> FreshForm],
      [reply |-> ButtonOnly, edit |-> ContainerOnly] }

\* the document after a page load
FreshPages ==
    { [f \in Forms |->
         IF f = RootForm THEN root
         ELSE IF f.kind = "reply" THEN cm[f.id].reply ELSE cm[f.id].edit] :
      root \in {NoForm, FreshForm}, cm \in [FComments -> CommentRenderings] }

displayed(d, f) == d[f].display = "block"

\* variant: the form is shown, the button is left as it is
showFormKeepsButton(d, f) ==
    IF ~d[f].container THEN d
    ELSE [d EXCEPT ![f].display = "block"]

\* showForm(containerId, toggleBtn); every caller passes the form's own button
showForm(d, f) ==
    IF ~d[f].container THEN d
    ELSE [d EXCEPT ![f].display = "block",
                   ![f].disabled = IF d[f].button THEN TRUE ELSE @]

hideForm(d, f) ==
    IF ~d[f].container THEN d
    ELSE [d EXCEPT ![f].display = "none",
                   ![f].disabled = IF d[f].button THEN FALSE ELSE @]

\* closeAllReplyForms / closeAllEditForms: every container of the class is
\* hidden, every button of the class enabled
closeAll(d, kind) ==
    [f \in Forms |->
        IF f.kind = kind
        THEN [d[f] EXCEPT !.display = IF d[f].container THEN "none" ELSE @,
                          !.disabled = IF d[f].button THEN FALSE ELSE @]
        ELSE d[f]]

closeAllReplyForms(d) == closeAll(d, "reply")

closeAllEditForms(d) == closeAll(d, "edit")

\* commentId 0 stands for an id no element carries (undefined)
activateEditErrorState(d, c) ==
    IF c \notin FComments THEN d
    ELSE LET f == [kind |-> "edit", id |-> c]
         IN  [d EXCEPT ![f].display = IF d[f].container THEN "block" ELSE @,
                       ![f].disabled = IF d[f].button THEN TRUE ELSE @]

\* event.target of a click: a toggle button or the cancel button of a form
Targets == { [act |-> a, form |-> f] : a \in {"show", "cancel"}, f \in Forms }

\* a disabled button fires no click; the cancel button sits in its form
CanClick(d, t) ==
    IF t.act = "show" THEN d[t.form].button /\ ~d[t.form].disabled
    ELSE d[t.form].container /\ displayed(d, t.form)

\* post_detail.js 49-102 (the same code as part_004 313-366)
clickPlain(d, t) ==
    IF t.act = "show" THEN showForm(d, t.form) ELSE hideForm(d, t.form)

\* variant: a reply or edit click opens its form without closing the others
clickExclusiveKeepsOthers(d, t) ==
    IF t.form = RootForm THEN clickPlain(d, t)
    ELSE IF t.act = "show" THEN showForm(d, t.form)
    ELSE hideForm(d, t.form)

\* part_004 69-136
clickExclusive(d, t) ==
    IF t.form = RootForm THEN clickPlain(d, t)
    ELSE IF t.act = "show"
         THEN showForm(closeAllReplyForms(closeAllEditForms(d)), t.form)
    ELSE hideForm(d, t.form)

\* part_003: the root listeners exist only if button, container and cancel
\* button were all found; a missing reply or edit form makes the listener
\* throw before it touches the button
clickLegacy(d, t) ==
    IF t.form = RootForm
    THEN IF d[t.form].container /\ d[t.form].button THEN clickPlain(d, t) ELSE d
    ELSE IF ~d[t.form].container THEN d
    ELSE clickPlain(d, t)

onClick(s, d, t) ==
    CASE s = "part_004"    -> clickPlain(clickExclusive(d, t), t)
      [] s = "post_detail" -> clickPlain(d, t)
      [] OTHER             -> clickLegacy(d, t)

\* variant: the form stays displayed while its request is in flight
beforeRequestKeepsForm(s, d, f) ==
    d

\* htmx:beforeRequest on the form element (part_004 139-165 only)
beforeRequest(s, d, f) ==
    IF s = "part_004" THEN hideForm(d, f) ELSE d

\* HX-Trigger response headers: none, text that is not JSON (plain event
\* names), the JSON value null, a JSON object without and with a
\* commentUpdateError entry (id 0: the entry names no commentId)
Headers ==
    { [kind |-> k, id |-> 0] : k \in {"absent", "names", "null", "object"} }
    \cup { [kind |-> "updateError", id |-> c] : c \in FComments \cup {0} }

\* JSON.parse(triggers) throws: caught, the handler returns
HeaderParseThrows(h) == h.kind = "names"

\* parsed.commentUpdateError on null: TypeError outside the try block
HeaderReadThrows(h) == h.kind = "null"

\* htmx:afterSwap (part_004 168-189, post_detail.js 105-127)
afterSwapHandler(d, rootSwapped, h) ==
    LET d1 == IF rootSwapped THEN showForm(d, RootForm) ELSE d
    IN  IF h.kind = "absent" \/ HeaderParseThrows(h) \/ HeaderReadThrows(h)
        THEN d1
        ELSE IF h.kind = "updateError" THEN activateEditErrorState(d1, h.id)
        ELSE d1

\* what an htmx swap replaces: the content of the root form container, or one
\* comment with its forms (by a server rendering)
Swaps ==
    { [el |-> "root", id |-> 0, to |-> r] : r \in {[reply |-> NoForm, edit |-> NoForm]} }
    \cup { [el |-> "comment", id |-> c, to |-> r] : c \in FComments, r \in CommentRenderings }

swapInto(d, sw) ==
    IF sw.el = "comment"
    THEN [d EXCEPT ![[kind |-> "reply", id |-> sw.id]] = sw.to.reply,
                   ![[kind |-> "edit", id |-> sw.id]] = sw.to.edit]
    ELSE d

\* custom events the server triggers; the commentId of the detail is 0 when
\* the detail carries none
ServerEvents ==
    {"commentRootFormSuccess", "commentRootFormError", "commentChildFormSuccess",
     "commentChildFormError", "commentUpdateError"}

\* part_004 191-215 and 391-423, post_detail.js 130-161
onServerEvent(d, e, c) ==
    CASE e = "commentRootFormSuccess"  -> hideForm(d, RootForm)
      [] e = "commentRootFormError"    -> showForm(d, RootForm)
      [] e = "commentChildFormSuccess" ->
            IF c = 0 THEN d ELSE hideForm(d, [kind |-> "reply", id |-> c])
      [] e = "commentChildFormError"   ->
            IF c = 0 THEN d ELSE showForm(d, [kind |-> "reply", id |-> c])
      [] OTHER                         ->
            IF c = 0 THEN d ELSE activateEditErrorState(d, c)

\* the request the event answers
RequestOf(e, c) ==
    CASE e \in {"commentRootFormSuccess", "commentRootFormError"} -> {RootForm}
      [] e \in {"commentChildFormSuccess", "commentChildFormError"} ->
            { f \in Forms : f.kind = "reply" /\ (c = 0 \/ f.id = c) }
      [] OTHER -> { f \in Forms : f.kind = "edit" /\ (c = 0 \/ f.id = c) }

Statuses == {200, 404, 500}

\* evt.detail.shouldSwap as htmx sets it before the listeners run
defaultShouldSwap(status) == status = 200

\* variant: the swap is cancelled whatever the status
shouldSwapAfterAlways(s, status, shouldSwapIn) ==
    IF s = "part_004" THEN FALSE ELSE shouldSwapIn

\* htmx:beforeSwap (part_004 242-250): evt.detail.shouldSwap after the handler
shouldSwapAfter(s, status, shouldSwapIn) ==
    IF s = "part_004" /\ status = 404 THEN FALSE ELSE shouldSwapIn

reloadsOn(s, status) == s = "part_004" /\ status = 404

InitForms ==
    /\ formsPage \in [script : Scripts,
                       dom : FreshPages,
                       pending : {{}},
                       reloading : {FALSE},
                       event : {"none"},
                       target : {NoTarget},
                       header : {NoHeader},
                       id : {0},
                       threw : {FALSE},
                       swapInfo : {NoSwapInfo}]
    /\ listPage = NotLoaded
    /\ scrollPage = NotLoaded
    /\ sortPage = NotLoaded
    /\ elems = {}
    /\ countText = << >>
    /\ iconClasses = {"bi-bell"}
    /\ countClasses = {"text-warning"}
    /\ particles = 0
    /\ pulseTimers = 0
    /\ initialized = FALSE
    /\ socks = [s \in Slots |-> "NONE"]
    /\ socket = 0
    /\ evq = << >>
    /\ reconnectTimers = << >>
    /\ hbIntervals = 0
    /\ lastEvent = "none"
    /\ lastMsg = NoMsg
    /\ prevText = << >>
    /\ lastGood = NoGood
    /\ out = NoEffects
    /\ fails = 0
    /\ cleanClosed = FALSE
    /\ wsStarts = 0
    /\ commentState = [c \in Comments |-> "unset"]
    /\ cdom = [c \in Comments |-> NoComment]
    /\ cEvent = "none"
    /\ settled = {}
    /\ lastClick = [c \in Comments |-> "none"]
    /\ scrollReq = FALSE

\* the page after a handler for event e on target t that reads no header,
\* no comment id and no response status, and throws nothing
handled(p, e, t) ==
    [p EXCEPT !.event = e, !.target = t, !.header = NoHeader, !.id = 0,
              !.threw = FALSE, !.swapInfo = NoSwapInfo]

FormClick(t) ==
    /\ UNCHANGED notForms
    /\ ~formsPage.reloading
    /\ CanClick(formsPage.dom, t)
    /\ formsPage' = [handled(formsPage, "click", t) EXCEPT
                        !.dom = onClick(formsPage.script, formsPage.dom, t)]

\* the user submits a displayed form: htmx fires htmx:beforeRequest on it,
\* then sends the request
Submit(f) ==
    /\ UNCHANGED notForms
    /\ ~formsPage.reloading
    /\ formsPage.script # "part_003"
    /\ formsPage.dom[f].container /\ displayed(formsPage.dom, f)
    /\ f \notin formsPage.pending
    /\ Cardinality(formsPage.pending) < MaxPending
    /\ formsPage' = [handled(formsPage, "beforeRequest",
                             [act |-> "submit", form |-> f]) EXCEPT
                        !.dom = beforeRequest(formsPage.script, formsPage.dom, f),
                        !.pending = @ \cup {f}]

\* the response of a pending request triggers a custom event on the body
ServerEvent(e, c, f) ==
    /\ UNCHANGED notForms
    /\ ~formsPage.reloading
    /\ formsPage.script # "part_003"
    /\ f \in formsPage.pending \cap RequestOf(e, c)
    /\ formsPage' = [handled(formsPage, e, NoTarget) EXCEPT
                        !.dom = onServerEvent(formsPage.dom, e, c),
                        !.pending = @ \ {f},
                        !.id = c]

\* htmx swapped a response into the page and fires htmx:afterSwap; a header
\* with a commentUpdateError entry answers a pending edit request
AfterSwap(sw, h, answered) ==
    /\ UNCHANGED notForms
    /\ ~formsPage.reloading
    /\ formsPage.script # "part_003"
    /\ answered \subseteq formsPage.pending
    /\ IF h.kind = "updateError"
       THEN \E f \in answered : f.kind = "edit" /\ (h.id = 0 \/ f.id = h.id)
       ELSE TRUE
    /\ (sw.el = "root") => formsPage.dom[RootForm].container
    /\ formsPage' = [handled(formsPage, "afterSwap",
                             [act |-> sw.el, form |-> RootForm]) EXCEPT
                        !.dom = afterSwapHandler(swapInto(formsPage.dom, sw),
                                                 sw.el = "root", h),
                        !.pending = @ \ answered,
                        !.header = h,
                        !.threw = HeaderReadThrows(h)]

\* htmx:beforeSwap for a response with the given status
BeforeSwap(status) ==
    /\ UNCHANGED notForms
    /\ ~formsPage.reloading
    /\ formsPage.script # "part_003"
    /\ formsPage' = [handled(formsPage, "beforeSwap", NoTarget) EXCEPT
                        !.swapInfo =
                           [status |-> status,
                            shouldSwapIn |-> defaultShouldSwap(status),
                            shouldSwap |-> shouldSwapAfter(formsPage.script, status,
                                               defaultShouldSwap(status))],
                        !.reloading = reloadsOn(formsPage.script, status)]

\* the custom event reloadPage: window.location.reload()
ReloadPage ==
    /\ UNCHANGED notForms
    /\ ~formsPage.reloading
    /\ formsPage.script # "part_003"
    /\ formsPage' = [handled(formsPage, "reloadPage", NoTarget) EXCEPT
                        !.reloading = TRUE]

\* the reload completes: a new document, the script runs again; the model
\* lets no event reach the old document once the reload has started
PageLoad ==
    /\ UNCHANGED notForms
    /\ formsPage.reloading
    /\ \E d \in FreshPages :
          formsPage' = [handled(formsPage, "load", NoTarget) EXCEPT
                          !.dom = d, !.pending = {}, !.reloading = FALSE]

NextForms ==
    \/ \E t \in Targets : FormClick(t)
    \/ \E f \in Forms : Submit(f)
    \/ \E e \in ServerEvents, c \in FComments \cup {0}, f \in Forms :
          ServerEvent(e, c, f)
    \/ \E sw \in Swaps, h \in Headers, answered \in {{}} \cup {{f} : f \in Forms} :
          AfterSwap(sw, h, answered)
    \/ \E status \in Statuses : BeforeSwap(status)
    \/ ReloadPage
    \/ PageLoad

(* ----------------- post page: scroll to the anchored comment ------------- *)
(* part_004 253-273 and post_detail.js 190-213 hold the same handler: a     *)
(* module-level flag scrolledToAnchor and an htmx:afterSwap listener on     *)
(* #comments-wrapper, registered at DOMContentLoaded if the wrapper exists. *)

\* an element id is a prefix followed by a number (0 = no number)
CardPrefix == "comment-card-"

CardIds == [prefix : {CardPrefix}, n : 1 .. NAnchorCards]

\* an element the comment list renders next to the cards: "comment-1"
BodyIds == [prefix : {"comment-"}, n : {1}]

\* elements a swap inside the wrapper adds or removes
InWrapperIds == CardIds \cup BodyIds

\* an element outside the wrapper, e.g. the root comment form
OutsideIds == {[prefix |-> "comment-form", n |-> 0]}

ElemIds == InWrapperIds \cup OutsideIds

NoEl == [prefix |-> "", n |-> 0]

\* window.location.hash: "" or "#" and a fragment; a fragment that is an id
\* is kept as that id, InvalidHash is a fragment that is no valid selector
NoHash == [prefix |-> "", n |-> 0]

InvalidHash == [prefix |-> "#!", n |-> 0]

Hashes == {NoHash, InvalidHash} \cup ElemIds

\* id.startsWith(prefix)
startsWith(id, prefix) == id.prefix = prefix

\* document.querySelector("#" + id) over the ids present: the element or null
querySelector(present, hash) == IF hash \in present THEN hash ELSE NoEl

QueryThrows(hash) == hash = InvalidHash

\* the htmx:afterSwap listener (part_004 261-272, post_detail.js 199-211)
scrollHandlerKeepsFlag(p) ==
    IF p.scrolledToAnchor THEN p
    ELSE IF p.hash = NoHash THEN p
    ELSE IF QueryThrows(p.hash) THEN [p EXCEPT !.threw = TRUE]
    ELSE LET el == querySelector(p.present, p.hash) IN
         IF el # NoEl /\ startsWith(el, CardPrefix)
         THEN [p EXCEPT !.scrolledTo = el,
                        !.scrolls = Min(@ + 1, MaxScrolls)]
         ELSE [p EXCEPT !.missed = TRUE]

scrollHandler(p) ==
    IF p.scrolledToAnchor THEN p
    ELSE IF p.hash = NoHash THEN p
    ELSE IF QueryThrows(p.hash) THEN [p EXCEPT !.threw = TRUE]
    ELSE LET el == querySelector(p.present, p.hash) IN
         IF el # NoEl /\ startsWith(el, CardPrefix)
         THEN [p EXCEPT !.scrolledTo = el,
                        !.scrolls = Min(@ + 1, MaxScrolls),
                        !.scrolledToAnchor = TRUE]
         ELSE [p EXCEPT !.missed = TRUE]

\* a document right after DOMContentLoaded: the flag is false, nothing has
\* been scrolled; listening = the wrapper existed and got the listener
FreshScrollPages ==
    [listening : BOOLEAN,
     hash : Hashes,
     present : SUBSET ElemIds,
     scrolledToAnchor : {FALSE},
     scrolls : {0},
     scrolledTo : {NoEl},
     missed : {FALSE},
     threw : {FALSE},
     event : {"none"}]

InitScroll ==
    /\ scrollPage \in FreshScrollPages
    /\ sortPage = NotLoaded
    /\ listPage = NotLoaded
    /\ formsPage = NotLoaded
    /\ elems = {}
    /\ countText = << >>
    /\ iconClasses = {"bi-bell"}
    /\ countClasses = {"text-warning"}
    /\ particles = 0
    /\ pulseTimers = 0
    /\ initialized = FALSE
    /\ socks = [s \in Slots |-> "NONE"]
    /\ socket = 0
    /\ evq = << >>
    /\ reconnectTimers = << >>
    /\ hbIntervals = 0
    /\ lastEvent = "none"
    /\ lastMsg = NoMsg
    /\ prevText = << >>
    /\ lastGood = NoGood
    /\ out = NoEffects
    /\ fails = 0
    /\ cleanClosed = FALSE
    /\ wsStarts = 0
    /\ commentState = [c \in Comments |-> "unset"]
    /\ cdom = [c \in Comments |-> NoComment]
    /\ cEvent = "none"
    /\ settled = {}
    /\ lastClick = [c \in Comments |-> "none"]
    /\ scrollReq = FALSE

\* htmx swaps a response inside #comments-wrapper: the wrapper then holds the
\* elements of the response, and htmx:afterSwap bubbles to the listener
WrapperSwap(content) ==
    /\ UNCHANGED notScroll
    /\ scrollPage.listening
    /\ scrollPage' = scrollHandler(
                        [scrollPage EXCEPT
                            !.present = (@ \ InWrapperIds) \cup content,
                            !.threw = FALSE,
                            !.event = "afterSwap"])

\* a swap elsewhere on the page: the event does not reach the listener
OutsideSwap(content) ==
    /\ UNCHANGED notScroll
    /\ scrollPage' = [scrollPage EXCEPT
                         !.present = (@ \ OutsideIds) \cup content,
                         !.threw = FALSE,
                         !.event = "swapOutside"]

\* the user follows a link to another fragment of the same document
HashChange(h) ==
    /\ UNCHANGED notScroll
    /\ h # scrollPage.hash
    /\ scrollPage' = [scrollPage EXCEPT !.hash = h, !.threw = FALSE,
                                        !.event = "hashchange"]

\* the page is loaded again: a new document and a new run of the script
ScrollPageLoad ==
    /\ UNCHANGED notScroll
    /\ \E d \in FreshScrollPages :
          /\ d.hash = scrollPage.hash
          /\ scrollPage' = [d EXCEPT !.event = "load"]

NextScroll ==
    \/ \E content \in SUBSET InWrapperIds : WrapperSwap(content)
    \/ \E content \in SUBSET OutsideIds : OutsideSwap(content)
    \/ \E h \in Hashes : HashChange(h)
    \/ ScrollPageLoad

(* ----------------- radio-style button groups (sort, order) -------------- *)
(* part_004 217-240: the comment sort and order buttons of the post page;  *)
(* part_002 10-50: the online, sort and order buttons of the users page.   *)
(* Each group has a hidden input; a group is the buttons of one class      *)
(* inside the ancestor the handler searches (the form, the .btn-group, the *)
(* parent element).                                                        *)

SortPages == {"post", "users"}

GroupsOf(page) ==
    IF page = "post" THEN {"comment-sort", "comment-order"}
    ELSE {"user-online", "user-sort", "user-order"}

Buttons == 1 .. NButtons

NoButton == 0

\* btn.dataset.value: every button of a group carries its own value
dataValue(g, b) == [group |-> g, btn |-> b]

\* the value "" of an input
EmptyValue == [group |-> "", btn |-> NoButton]

\* one group as rendered: at most one button active and the hidden input,
\* if the page has it, holding that button's value; scoped = the ancestor
\* the handler searches for the group exists (a parent element always does)
RenderedGroups(g) ==
    {gr \in [active : SUBSET Buttons,
             hasInput : BOOLEAN,
             input : {EmptyValue} \cup {dataValue(g, b) : b \in Buttons},
             scoped : BOOLEAN] :
        /\ Cardinality(gr.active) <= 1
        /\ gr.input = IF gr.hasInput /\ gr.active # {}
                      THEN dataValue(g, CHOOSE b \in gr.active : TRUE)
                      ELSE EmptyValue
        /\ (g = "user-order") => gr.scoped}

\* a handler's result: the group after it and whether it threw
Quiet(gr) == [group |-> gr, threw |-> FALSE]

Thrown(gr) == [group |-> gr, threw |-> TRUE]

\* part_004 218-240: the click listener for .comment-sort-btn and
\* .order-comment-btn
commentSortClickDeselects(gr, g, b) ==
    IF ~gr.hasInput THEN Quiet(gr)
    ELSE IF b \in gr.active
    THEN Quiet([gr EXCEPT !.active = @ \ {b}, !.input = EmptyValue])
    ELSE IF ~gr.scoped THEN Thrown(gr)
    ELSE Quiet([gr EXCEPT !.active = {b}, !.input = dataValue(g, b)])

commentSortClick(gr, g, b) ==
    IF ~gr.hasInput THEN Quiet(gr)
    ELSE IF b \in gr.active THEN Quiet(gr)
    ELSE IF ~gr.scoped THEN Thrown(gr)
    ELSE Quiet([gr EXCEPT !.active = {b}, !.input = dataValue(g, b)])

\* part_002 13-48: one branch per class, all three alike; the input is
\* dereferenced after the classes have changed
userFilterClick(gr, g, b) ==
    IF ~gr.scoped THEN Thrown(gr)
    ELSE IF ~gr.hasInput THEN Thrown([gr EXCEPT !.active = {b}])
    ELSE Quiet([gr EXCEPT !.active = {b}, !.input = dataValue(g, b)])

groupClick(page, gr, g, b) ==
    IF page = "post" THEN commentSortClick(gr, g, b)
    ELSE userFilterClick(gr, g, b)

FreshSortPages ==
    UNION {[page : {page},
            groups : {gs \in [GroupsOf(page) ->
                                 UNION {RenderedGroups(g) : g \in GroupsOf(page)}] :
                         \A g \in GroupsOf(page) : gs[g] \in RenderedGroups(g)},
            event : {"none"},
            group : {""},
            btn : {NoButton},
            wasActive : {FALSE},
            threw : {FALSE}] : page \in SortPages}

InitSort ==
    /\ sortPage \in FreshSortPages
    /\ scrollPage = NotLoaded
    /\ listPage = NotLoaded
    /\ formsPage = NotLoaded
    /\ elems = {}
    /\ countText = << >>
    /\ iconClasses = {"bi-bell"}
    /\ countClasses = {"text-warning"}
    /\ particles = 0
    /\ pulseTimers = 0
    /\ initialized = FALSE
    /\ socks = [s \in Slots |-> "NONE"]
    /\ socket = 0
    /\ evq = << >>
    /\ reconnectTimers = << >>
    /\ hbIntervals = 0
    /\ lastEvent = "none"
    /\ lastMsg = NoMsg
    /\ prevText = << >>
    /\ lastGood = NoGood
    /\ out = NoEffects
    /\ fails = 0
    /\ cleanClosed = FALSE
    /\ wsStarts = 0
    /\ commentState = [c \in Comments |-> "unset"]
    /\ cdom = [c \in Comments |-> NoComment]
    /\ cEvent = "none"
    /\ settled = {}
    /\ lastClick = [c \in Comments |-> "none"]
    /\ scrollReq = FALSE

\* the user clicks button b of group g
GroupClick(g, b) ==
    /\ UNCHANGED notSort
    /\ g \in GroupsOf(sortPage.page)
    /\ LET res == groupClick(sortPage.page, sortPage.groups[g], g, b)
       IN  sortPage' = [sortPage EXCEPT !.groups[g] = res.group,
                                        !.event = "click",
                                        !.group = g,
                                        !.btn = b,
                                        !.wasActive =
                                           b \in sortPage.groups[g].active,
                                        !.threw = res.threw]

\* a click that hits no button of any group: every branch is skipped
ClickElsewhere ==
    /\ UNCHANGED notSort
    /\ sortPage' = [sortPage EXCEPT !.event = "click", !.group = "",
                                    !.btn = NoButton, !.wasActive = FALSE,
                                    !.threw = FALSE]

NextSort ==
    \/ \E g \in GroupsOf("post") \cup GroupsOf("users"), b \in Buttons :
          GroupClick(g, b)
    \/ ClickElsewhere

(* --------------------------- specifications ---------------------------- *)
SpecWS == InitWS /\ [][NextWS]_vars

\* a pending timer fires: the browser runs every setTimeout callback
SpecWSFair == SpecWS /\ WF_vars(ReconnectTimerFire)

SpecComments == InitComments /\ [][NextComments]_vars

SpecList == InitList /\ [][NextList]_vars

SpecForms == InitForms /\ [][NextForms]_vars

SpecScroll == InitScroll /\ [][NextScroll]_vars

SpecSort == InitSort /\ [][NextSort]_vars

(* ============================== claims ================================= *)
WSRequired == {"button", "icon", "count"}

\* the number the counter displays (an empty or non-numeric display is 0)
Shown == previousCountOf(countText)

\* C1: every unclean close is followed by a new connection attempt: the close
\* handler leaves a reconnect timer of exactly RECONNECT_DELAY pending, and
\* the timer leads to connect(), however many failures came before.
C1_ReconnectAfterUncleanClose ==
    /\ [](\A i \in 1..Len(reconnectTimers) : reconnectTimers[i] = RECONNECT_DELAY)
    /\ [](lastEvent = "closeUnclean" => Len(reconnectTimers) = 1)
    /\ (lastEvent = "closeUnclean")
          ~> (lastEvent = "reconnect" /\ socks[socket] = "CONNECTING")

\* a reconnect that follows at least MaxFails consecutive unclean closes
C1_Witness ==
    lastEvent = "reconnect" /\ fails = MaxFails /\ socks[socket] = "CONNECTING"

\* C2: once a clean close has been handled no reconnect timer is pending and
\* no step creates a WebSocket or schedules a timer.
C2_NoReconnectAfterCleanClose ==
    /\ [](cleanClosed => reconnectTimers = << >>)
    /\ [][cleanClosed =>
            /\ cleanClosed'
            /\ socket' = socket
            /\ reconnectTimers' = << >>
            /\ \A s \in Slots : socks'[s] = "CONNECTING" => socks[s] = "CONNECTING"]_vars

\* time goes on after the clean close: a heartbeat timer ticks on the closed socket
C2_Witness ==
    cleanClosed /\ lastEvent = "heartbeat" /\ socks[socket] = "CLOSED"

\* C3: a heartbeat tick sends exactly when the current socket is OPEN, and a
\* heartbeat message is never sent by anything else or in any other state.
C3_HeartbeatOnlyWhileOpen ==
    /\ lastEvent = "heartbeat" =>
          (out.sent = 1 <=> (socket # 0 /\ socks[socket] = "OPEN"))
    /\ out.sent # 0 =>
          (out.sent = 1 /\ lastEvent = "heartbeat" /\ socks[socket] = "OPEN")

\* a tick on an open socket, after the connection had failed and reconnected
C3_Witness ==
    lastEvent = "heartbeat" /\ out.sent = 1 /\ socket = 2

\* C4: the counter shows the unread count of the most recent JSON-object
\* message (0 if its field is absent or null).
C4_CounterShowsLastWellFormed ==
    lastGood.t # "none" =>
        countText = StringOf(IF lastGood.t = "num" THEN lastGood.n ELSE 0)

\* C5: once a JSON-object message has been processed, the icon is the filled
\* bell and the counter danger-coloured iff the displayed count is positive,
\* otherwise empty bell and warning colour; never both classes of a pair.
C5_IconMatchesCount ==
    lastGood.t # "none" =>
        /\ ("bi-bell-fill" \in iconClasses) <=> (Shown > 0)
        /\ ("bi-bell" \in iconClasses) <=> ~(Shown > 0)
        /\ ("text-danger" \in countClasses) <=> (Shown > 0)
        /\ ("text-warning" \in countClasses) <=> ~(Shown > 0)

\* a positive count has just been shown with the filled bell
C5_Witness ==
    /\ lastEvent = "message" /\ IsJsonObject(lastMsg) /\ CountOf(lastMsg) > 0
    /\ "bi-bell-fill" \in iconClasses /\ "text-danger" \in countClasses

C7_MalformedChangesNothing ==
    [][(lastEvent' = "message" /\ ~IsJsonObject(lastMsg')) =>
         /\ UNCHANGED << countText, iconClasses, countClasses, socks, socket,
                         reconnectTimers >>
         /\ socks[socket] = "OPEN"]_vars

RenderedExpanded(c) ==
    cdom[c].expanded /\ cdom[c].label = "collapse" /\ cdom[c].arrow = 180

RenderedCollapsed(c) ==
    ~cdom[c].expanded /\ cdom[c].label = "show" /\ cdom[c].arrow = 0

C9_SettleRestoresExpandState ==
    cEvent = "settle" =>
        \A c \in settled :
            cdom[c].present =>
                IF lastClick[c] = "expand" THEN RenderedExpanded(c)
                ELSE RenderedCollapsed(c)

\* a settle restored an expanded comment and left a never-clicked one collapsed
C9_Witness ==
    /\ cEvent = "settle"
    /\ \E c \in settled : cdom[c].present /\ lastClick[c] = "expand"
                          /\ RenderedExpanded(c)
    /\ \E c \in settled : cdom[c].present /\ lastClick[c] = "none"

\* C10: at most one socket is CONNECTING or OPEN, at most one reconnect timer
\* is pending, the load handler starts the connection at most once and never
\* without the button, icon and counter.
C10_SingleConnection ==
    /\ Cardinality({ s \in Slots : Live(s) }) <= 1
    /\ Len(reconnectTimers) <= 1
    /\ wsStarts <= 1
    /\ ~(WSRequired \subseteq elems) =>
          (wsStarts = 0 /\ socket = 0 /\ \A s \in Slots : socks[s] = "NONE")

\* the load handler ran again while the connection it started was open
C10_Witness ==
    lastEvent = "load" /\ wsStarts = 1 /\ socket # 0 /\ socks[socket] = "OPEN"

\* C11: heartbeat timers do not accumulate: at most one setInterval heartbeat
\* timer is active, so one elapsed interval on an open connection sends one
\* heartbeat message, however many reconnects reached the open state.
C11_SingleHeartbeatTimer ==
    hbIntervals <= 1

\* C12: a completed request of one notification's mark-read button disables
\* and relabels that button and removes the highlight of that card, and leaves
\* every other card and button as it was; a completed request of the mark-all
\* button removes every highlight and disables, relabels and strips of its
\* request attributes every mark-read button.
C12_MarkReadFrame ==
    [][ listPage'.event = "afterRequest" =>
          /\ listPage'.trigger.kind = "markRead" =>
                /\ listPage'.notifs[listPage'.trigger.id] =
                      [listPage.notifs[listPage'.trigger.id] EXCEPT !.highlighted = FALSE,
                                                   !.disabled = TRUE,
                                                   !.label = "read"]
                /\ \A j \in Notifs \ {listPage'.trigger.id} : listPage'.notifs[j] = listPage.notifs[j]
          /\ listPage'.trigger.kind = "markAll" =>
                \A j \in Notifs :
                    IF listPage.notifs[j].present
                    THEN listPage'.notifs[j] = [present |-> TRUE, highlighted |-> FALSE,
                                       disabled |-> TRUE, label |-> "read",
                                       hx |-> FALSE]
                    ELSE listPage'.notifs[j] = listPage.notifs[j] ]_vars

\* one notification was marked read while another stayed unread and highlighted
C12_Witness ==
    /\ listPage.event = "afterRequest"
    /\ listPage.trigger.kind = "markRead"
    /\ listPage.notifs[listPage.trigger.id] = [present |-> TRUE, highlighted |-> FALSE,
                              disabled |-> TRUE, label |-> "read", hx |-> TRUE]
    /\ \E j \in Notifs \ {listPage.trigger.id} : listPage.notifs[j] = UnreadNotif

\* C13: a failed request (error status or network failure) leaves every card
\* and every button unchanged.
C13_FailedRequestChangesNothing ==
    [][ (listPage'.event = "afterRequest" /\ ~listPage'.successful) => listPage'.notifs = listPage.notifs ]_vars

\* the wrappers, the text and the two buttons the empty-state handler needs
ListPage == "list" \in listPage.elems

\* C14: after the handlers of a completed request have run, the "no
\* notifications" text is shown iff the list holds no notification wrapper,
\* and the mark-all and delete-all buttons are disabled iff it holds none.
C14_EmptyStateMatchesList ==
    (listPage.event = "afterRequest" /\ ListPage) =>
        /\ "noNotif" \in listPage.elems =>
              (listPage.noNotifDisplay = "block" <=> wrappersIn(listPage.notifs) = 0)
        /\ "markAll" \in listPage.elems => (listPage.markAllDisabled <=> wrappersIn(listPage.notifs) = 0)
        /\ "deleteAll" \in listPage.elems => (listPage.deleteAllDisabled <=> wrappersIn(listPage.notifs) = 0)

\* deleting the last notification showed the text and disabled both buttons
C14_Witness ==
    /\ listPage.event = "afterRequest"
    /\ listPage.trigger.kind = "delete"
    /\ listPage.successful
    /\ ListElems \subseteq listPage.elems
    /\ wrappersIn(listPage.notifs) = 0
    /\ listPage.noNotifDisplay = "block" /\ listPage.markAllDisabled /\ listPage.deleteAllDisabled

\* reply and edit forms that are displayed
Open(d) == { f \in ReplyEditForms : displayed(d, f) }

\* C15 (part_004): right after a click on a reply or edit button, the form of
\* that button is the only reply or edit form displayed, its button is
\* disabled and every other reply and edit button is enabled.
C15_ClickOpensOnlyThatForm ==
    (formsPage.script = "part_004" /\ formsPage.event = "click" /\ formsPage.target.act = "show"
       /\ formsPage.target.form # RootForm /\ formsPage.dom[formsPage.target.form].container) =>
        /\ Open(formsPage.dom) = {formsPage.target.form}
        /\ formsPage.dom[formsPage.target.form].disabled
        /\ \A f \in ReplyEditForms \ {formsPage.target.form} : ~formsPage.dom[f].disabled

\* an edit button was clicked while a reply form was open; only the edit form
\* is displayed now
C15_Witness ==
    /\ formsPage.script = "part_004" /\ formsPage.event = "click" /\ formsPage.target.act = "show"
    /\ formsPage.target.form.kind = "edit"
    /\ Open(formsPage.dom) = {formsPage.target.form}
    /\ \E f \in ReplyEditForms \ {formsPage.target.form} : formsPage.dom[f].container /\ formsPage.dom[f].button

\* C16 (part_004): in every reachable state at most one reply or edit form is
\* displayed.
C16_AtMostOneFormOpen ==
    formsPage.script = "part_004" => Cardinality(Open(formsPage.dom)) <= 1

\* C17: for every form whose container and button both exist (reply, edit and
\* root), the button is disabled iff the form is displayed; all three scripts.
C17_ButtonCoupledToForm ==
    \A f \in Forms :
        (formsPage.dom[f].container /\ formsPage.dom[f].button) => (formsPage.dom[f].disabled <=> displayed(formsPage.dom, f))

\* a reply, an edit and the root form are displayed with their buttons disabled
C17_Witness ==
    /\ \E f \in Forms : f.kind = "reply" /\ formsPage.dom[f].button /\ displayed(formsPage.dom, f) /\ formsPage.dom[f].disabled
    /\ \E f \in Forms : f.kind = "edit" /\ formsPage.dom[f].button /\ displayed(formsPage.dom, f) /\ formsPage.dom[f].disabled
    /\ formsPage.dom[RootForm].button /\ displayed(formsPage.dom, RootForm) /\ formsPage.dom[RootForm].disabled

\* the form an error event names (commentId 0: none)
ErrorForm(e, c) ==
    CASE e = "commentRootFormError"  -> RootForm
      [] e = "commentChildFormError" -> [kind |-> "reply", id |-> c]
      [] OTHER                       -> [kind |-> "edit", id |-> c]

ErrorEvents == {"commentRootFormError", "commentChildFormError", "commentUpdateError"}

\* C18 (part_004): a form that starts a request is hidden and its button
\* enabled before any response; an error event for a form displays that form
\* again and disables its button; an error event without comment id changes
\* nothing.
C18_HideOnRequestReopenOnError ==
    [][ formsPage.script = "part_004" =>
          /\ formsPage'.event = "beforeRequest" =>
                /\ ~displayed(formsPage'.dom, formsPage'.target.form)
                /\ ~formsPage'.dom[formsPage'.target.form].disabled
                /\ formsPage'.target.form \in formsPage'.pending
          /\ (formsPage'.event \in ErrorEvents /\ (formsPage'.id # 0 \/ formsPage'.event = "commentRootFormError")) =>
                LET f == ErrorForm(formsPage'.event, formsPage'.id)
                IN  formsPage'.dom[f].container =>
                        /\ displayed(formsPage'.dom, f)
                        /\ formsPage'.dom[f].button => formsPage'.dom[f].disabled
          /\ (formsPage'.event \in ErrorEvents \ {"commentRootFormError"} /\ formsPage'.id = 0) =>
                formsPage'.dom = formsPage.dom ]_vars

\* a reply form that was hidden by its request is displayed again by the error
\* event of its comment
C18_Witness ==
    /\ formsPage.script = "part_004" /\ formsPage.event = "commentChildFormError" /\ formsPage.id # 0
    /\ displayed(formsPage.dom, [kind |-> "reply", id |-> formsPage.id])
    /\ formsPage.dom[[kind |-> "reply", id |-> formsPage.id]].disabled

\* headers that carry no commentUpdateError entry
BenignHeader(h) == h.kind \in {"absent", "names", "null", "object"}

\* C19: after a swap whose response has no HX-Trigger header, a header that is
\* not JSON or JSON without a commentUpdateError entry, the handler has opened
\* no edit form, disabled no edit button and raised no exception; a swapped
\* root form container is displayed; a commentUpdateError entry opens the edit
\* form it names and no other.
C19_AfterSwapHeader ==
    [][ (formsPage'.event = "afterSwap") =>
          /\ BenignHeader(formsPage'.header) =>
                /\ \A f \in Forms : f.kind = "edit" =>
                      /\ displayed(formsPage'.dom, f) => displayed(formsPage.dom, f)
                      /\ formsPage'.dom[f].disabled => formsPage.dom[f].disabled
                /\ ~formsPage'.threw
          /\ (BenignHeader(formsPage'.header) /\ formsPage'.target.act = "root") =>
                displayed(formsPage'.dom, RootForm)
          /\ formsPage'.header.kind = "updateError" =>
                \A f \in Forms : f.kind = "edit" =>
                    IF f.id = formsPage'.header.id
                    THEN formsPage'.dom[f].container => displayed(formsPage'.dom, f)
                    ELSE displayed(formsPage'.dom, f) => displayed(formsPage.dom, f) ]_vars

\* C20 (part_004): a response with status 404 sets shouldSwap to false and
\* reloads the page; any other status leaves shouldSwap as it was and does not
\* reload.
C20_NotFoundReloads ==
    (formsPage.script = "part_004" /\ formsPage.event = "beforeSwap") =>
        IF formsPage.swapInfo.status = 404
        THEN ~formsPage.swapInfo.shouldSwap /\ formsPage.reloading
        ELSE formsPage.swapInfo.shouldSwap = formsPage.swapInfo.shouldSwapIn /\ ~formsPage.reloading

\* a 404 response cancelled the swap and started the reload
C20_Witness ==
    /\ formsPage.script = "part_004" /\ formsPage.event = "beforeSwap"
    /\ formsPage.swapInfo.status = 404 /\ ~formsPage.swapInfo.shouldSwap /\ formsPage.reloading

\* C21: in one page life the page is scrolled to the hash element at most
\* once and only to an element whose id starts with "comment-card-"; a swap
\* inside the wrapper after which the hash element is absent or is no comment
\* card scrolls nothing and leaves the one scroll available, and a swap that
\* brings the hash's comment card in while nothing has been scrolled yet
\* scrolls to it.
C21_ScrollOnce ==
    [][LET p == scrollPage
           q == scrollPage'
           cardIn == q.hash \in q.present /\ startsWith(q.hash, CardPrefix)
       IN  /\ q.scrolls <= 1
           /\ q.scrolledTo # NoEl => startsWith(q.scrolledTo, CardPrefix)
           /\ (q.event = "afterSwap" /\ ~cardIn) =>
                 /\ q.scrolls = p.scrolls
                 /\ q.scrolledTo = p.scrolledTo
                 /\ q.scrolledToAnchor = p.scrolledToAnchor
           /\ (q.event = "afterSwap" /\ cardIn /\ p.scrolls = 0) =>
                 /\ q.scrolls = 1
                 /\ q.scrolledTo = q.hash]_vars

\* a swap scrolled to the anchored card after an earlier swap of the same
\* page life had not found it
C21_Witness ==
    /\ scrollPage.event = "afterSwap"
    /\ scrollPage.missed
    /\ scrollPage.scrolls = 1
    /\ scrollPage.scrolledTo = scrollPage.hash
    /\ startsWith(scrollPage.scrolledTo, CardPrefix)

\* the group has exactly one active button and its hidden input holds that
\* button's data-value
Selected(gr, g) ==
    /\ gr.hasInput
    /\ \E b \in Buttons : gr.active = {b} /\ gr.input = dataValue(g, b)

\* C22: a radio-style group (comment sort and order of the newer comment
\* script, user online, sort and order) that has exactly one active button
\* whose value is in the hidden input still has exactly one active button
\* with its value in the input after a click, that button being the clicked
\* one when the click is on a button of the group; a click on the active
\* button changes neither the active button nor the input.
C22_RadioGroups ==
    [][\A g \in GroupsOf(sortPage.page) :
          LET gr == sortPage.groups[g]
              after == sortPage'.groups[g]
          IN  Selected(gr, g) =>
                 /\ Selected(after, g)
                 /\ (sortPage'.event = "click" /\ sortPage'.group = g
                        /\ gr.scoped) =>
                       /\ after.active = {sortPage'.btn}
                       /\ after.input = dataValue(g, sortPage'.btn)
                 /\ (sortPage'.event = "click" /\ sortPage'.group = g
                        /\ sortPage'.wasActive) =>
                       /\ sortPage'.btn \in gr.active
                       /\ after = gr]_vars

\* the last click hit the active button of a selected group, and another
\* group of the page has been switched to its last button
C22_Witness ==
    /\ sortPage.event = "click"
    /\ sortPage.group \in GroupsOf(sortPage.page)
    /\ sortPage.wasActive
    /\ Selected(sortPage.groups[sortPage.group], sortPage.group)
    /\ sortPage.groups[sortPage.group].active = {sortPage.btn}
    /\ \E g \in GroupsOf(sortPage.page) \ {sortPage.group} :
          /\ Selected(sortPage.groups[g], g)
          /\ sortPage.groups[g].active = {NButtons}

====
